---- MODULE Spec2Model ----
(***************************************************************************)
(* A model of the note-taking HTTP service (Fiber + GORM + golang-jwt):    *)
(* registration and login (internal/handlers/auth.go), the notes CRUD      *)
(* handlers and their validation middleware (internal/handlers/notes.go,   *)
(* cmd/main.go), and the two-tier notes cache (internal/models/cache.go).  *)
(*                                                                         *)
(* A handler is an operator from the stored state and the request to the   *)
(* response and the state it leaves: st is the record of what a request    *)
(* can change (the tables users, notes and caches, the in-process cache    *)
(* map) and of the clock it reads.  A route is the middleware chain the     *)
(* router installs for the path, then the handler.  The actions are the    *)
(* steps of a request between which other requests run: each statement on  *)
(* the database and each call of a cache function.                         *)
(*                                                                         *)
(* Time is counted in units of 24 hours (the lifetime of a token and of a  *)
(* cache row); 0 stands for the zero time / a NULL timestamp.              *)
(***************************************************************************)
EXTENDS Integers, Sequences, FiniteSets, TLC

\* ------------------------------------------------------------------ bounds
MaxUsers == 3
MaxNotes == 2
MaxTime == 2
MaxWorkers == 2
\* the rows of table notes in the authorization specification
MaxAuthNotes == 1
\* the concurrent requests of the lock specification, and the rows of its
\* table notes
MaxLockWorkers == 3
MaxLockNotes == 1

\* time.Now().Add(24 * time.Hour) in generateToken, in 24-hour units
TokenTTL == 1
\* time.Now().Add(24 * time.Hour) in SaveNotes, in 24-hour units
CacheTTL == 1

\* ------------------------------------------------------------ input values
Emails == {"a@x.com", "b@x.com", "c@x.com"}
\* values of the two environment variables; "" is an unset variable
EnvValues == {"", "s1"}
Titles == {"T1", "T2"}
Texts == {"B1"}

VARIABLES
    users,          \* rows of table users
    notes,          \* rows of table notes
    notesCache,     \* the in-process map user id -> list of notes
    cacheRows,      \* rows of table caches
    now,            \* the clock
    cacheTable,     \* whether table caches exists in the database file
    jwtSecret,      \* os.Getenv("JWT_SECRET"), read once by init()
    jwtSecretKey,   \* os.Getenv("JWT_SECRET_KEY"), read at each verification
    sqlite_sequence,\* per table: the largest id AUTOINCREMENT has handed out
    inflight,       \* per worker: where its request stands inside its handler
    cacheMutex      \* the sync.RWMutex: its readers, and the writer that has it

vars == <<users, notes, notesCache, cacheRows, now, cacheTable, jwtSecret,
          jwtSecretKey, sqlite_sequence, inflight, cacheMutex>>

\* what a request reads and may change; saveErr: whether database.Save returns
\* an error in this request (a database that cannot write)
State == [users |-> users, notes |-> notes, cache |-> notesCache,
          rows |-> cacheRows, now |-> now, seq |-> sqlite_sequence,
          saveErr |-> FALSE]

\* the state as a request meets it when database.Save fails
SaveFails(st) == [st EXCEPT !.saveErr = TRUE]

\* ----------------------------------------------------------------- helpers
Max(S) == CHOOSE x \in S : \A y \in S : y <= x

\* the id an AUTOINCREMENT primary key gives the next row inserted into table
\* t without one: one more than the largest id that was ever handed out or
\* stored (SQLite keeps it in sqlite_sequence)
NextID(st, t) == st.seq[t] + 1

\* sqlite_sequence after an INSERT into table t of a row with the id, also
\* one that ON CONFLICT DO NOTHING discards
Reserved(st, t, id) == [st EXCEPT !.seq[t] = IF id > @ THEN id ELSE @]

\* ------------------------------------------------------------------- rows
\* the goroutines that serve requests
Workers == 1..MaxWorkers

ZeroUser == [id |-> 0, username |-> "", password |-> "", first_name |-> "",
             last_name |-> "", email |-> ""]
NoNote == [id |-> 0, user_id |-> 0, title |-> "", body |-> "", deleted_at |-> 0]
NoUserRow == [id |-> 0, username |-> "", email |-> "", password |-> <<"", "">>]

UserIDs(st) == {u.id : u \in st.users}
UserByID(st, id) == CHOOSE u \in st.users : u.id = id

\* ------------------------------------------------------------------ tokens
NoToken == [form |-> "none", uid |-> 0, key |-> "", exp |-> 0]
Garbage == [form |-> "garbage", uid |-> 0, key |-> "", exp |-> 0]
Tokens == [form : {"jwt"}, uid : 1..MaxUsers, key : EnvValues,
           exp : 1..(MaxTime + TokenTTL)]

\* the Authorization header: absent, or an optional scheme prefix and a string
NoHeader == [present |-> FALSE, scheme |-> "", tok |-> NoToken]
Headers == {NoHeader} \cup
           [present : {TRUE}, scheme : {"", "Bearer "}, tok : Tokens \cup {Garbage}]
Bearer(t) == [present |-> TRUE, scheme |-> "Bearer ", tok |-> t]

\* generateToken: HS256 over {user_id, exp = now + 24h} with the key init() read
generateToken(st, user) ==
    [form |-> "jwt", uid |-> user.id, key |-> jwtSecret, exp |-> st.now + TokenTTL]

\* strings.TrimPrefix(tokenString, "Bearer ")
TrimPrefix(h) == IF h.scheme = "Bearer " THEN [h EXCEPT !.scheme = ""] ELSE h

\* a parse that does not read the exp claim
jwtParse_NoExpiry(st, h, key) ==
    /\ h.scheme = ""
    /\ h.tok.form = "jwt"
    /\ h.tok.key = key

\* jwt.Parse(tokenString, keyFunc): err == nil && token.Valid.  The string must
\* be a three-part JWT (a remaining "Bearer " prefix does not decode), the HMAC
\* must verify under the key the keyFunc returns, and exp must be in the future.
jwtParse(st, h, key) ==
    /\ h.scheme = ""
    /\ h.tok.form = "jwt"
    /\ h.tok.key = key
    /\ st.now < h.tok.exp

\* getUserIDFromToken: the user id of the header's token, 0 for an error
getUserIDFromToken(st, h) ==
    IF ~h.present THEN 0
    ELSE IF ~jwtParse(st, TrimPrefix(h), jwtSecretKey) THEN 0
    ELSE h.tok.uid

\* AuthMiddleware: the header is parsed as it is (no prefix is removed), under
\* the key init() read, and the user is looked up; 0 for a 401
AuthMiddleware(st, h) ==
    IF ~h.present THEN 0
    ELSE IF ~jwtParse(st, h, jwtSecret) THEN 0
    ELSE IF h.tok.uid \notin UserIDs(st) THEN 0
    ELSE h.tok.uid

\* --------------------------------------------------------------- passwords
\* hashPassword: bcrypt.GenerateFromPassword
hashPassword(p) == <<"bcrypt", p>>

\* a comparison that accepts every password
CompareHashAndPassword_Any(stored, p) == TRUE

\* bcrypt.CompareHashAndPassword: a stored value matches a password only if it
\* is the bcrypt hash of that password
CompareHashAndPassword(stored, p) == stored = <<"bcrypt", p>>

\* ------------------------------------------------------------- validation
\* validate tag "email"
IsEmail(s) == s \in Emails

\* models.ValidateUser / validate.Struct(user): the validate tags of User
ValidateUser(u) ==
    /\ Len(u.username) >= 3 /\ Len(u.username) <= 32
    /\ Len(u.password) >= 8
    /\ u.first_name # ""
    /\ u.last_name # ""
    /\ IsEmail(u.email)

\* validate.Struct(loginData) in the ValidateLogin middleware
ValidateLogin(b) == b.username # "" /\ b.password # ""

\* validate.Struct(note): the validate tags of Note, and of the User struct
\* nested in it (the validator descends into a struct field that has no tag)
ValidateNoteStruct(b) ==
    /\ b.user_id # 0
    /\ b.title # ""
    /\ b.body # ""
    /\ ValidateUser(b.user)

\* c.BodyParser(&note) followed by validate.Struct(note): the ValidateNote
\* middleware, and again the first steps of createNote and updateNote
ValidateNote(b) == b.json /\ ValidateNoteStruct(b)

\* ------------------------------------------------------------- repository
\* database.Where("user_id = ? AND deleted_at IS NULL", userID).Find(&notes)
fetchUserNotes(st, userID) ==
    {n \in st.notes : n.user_id = userID /\ n.deleted_at = 0}

\* the ownership lookup as its Where text alone, without the soft-delete
\* condition GORM adds
existingNote_WithDeleted(st, noteID, userID) ==
    {n \in st.notes : n.id = noteID /\ n.user_id = userID}

\* the ownership lookup without its user_id condition
existingNote_AnyOwner(st, noteID, userID) ==
    {n \in st.notes : n.id = noteID /\ n.deleted_at = 0}

\* database.Where("id = ? AND user_id = ?", noteID, userID).First(&existingNote):
\* the rows the query matches.  Note embeds gorm.Model, whose DeletedAt field
\* makes GORM add "deleted_at IS NULL" to every query on the table.
existingNote(st, noteID, userID) ==
    {n \in st.notes : n.id = noteID /\ n.user_id = userID /\ n.deleted_at = 0}

\* GORM saves the belongs-to association User before it writes the note
\* (callbacks.SaveBeforeAssociations): a non-zero note.User is inserted into
\* users with ON CONFLICT DO NOTHING, and the note's foreign key UserID is then
\* set to that user's primary key.  The row the insert adds, if any:
AssocInsertID(st, u) == IF u.id # 0 THEN u.id ELSE NextID(st, "users")

AssocConflict(st, u) ==
    \E r \in st.users : \/ r.id = AssocInsertID(st, u)
                        \/ r.username = u.username
                        \/ r.email = u.email

AssocRows(st, u) ==
    IF u = ZeroUser \/ AssocConflict(st, u) THEN {}
    ELSE {[id |-> AssocInsertID(st, u), username |-> u.username,
           email |-> u.email, password |-> <<"plain", u.password>>]}

\* the tables after the association is saved: the row, if the insert adds
\* one, and the id the insert has reserved, also when it is discarded
AssocSaved(st, u) ==
    IF u = ZeroUser THEN st
    ELSE Reserved([st EXCEPT !.users = st.users \cup AssocRows(st, u)],
                  "users", AssocInsertID(st, u))

\* the UserID the note is written with: the handler's assignment
\* note.UserID = userID, overwritten by the association's primary key
OwnerWritten(st, userID, u) ==
    IF u = ZeroUser THEN userID
    ELSE IF AssocConflict(st, u) THEN u.id
    ELSE AssocInsertID(st, u)

\* ------------------------------------------------------------------ cache
\* json.Marshal(notes) / json.Unmarshal([]byte(cache.Notes), &notes)
Marshal(ns) == {<<n.id, n.user_id, n.title, n.body, n.deleted_at>> : n \in ns}
Unmarshal(js) ==
    {[id |-> j[1], user_id |-> j[2], title |-> j[3], body |-> j[4],
      deleted_at |-> j[5]] : j \in js}

EmptyCache == [u \in {} |-> {}]
CachePut(cache, userID, ns) ==
    [u \in (DOMAIN cache) \cup {userID} |-> IF u = userID THEN ns ELSE cache[u]]

\* tx.Where("user_id = ?", userID).First(&cache): the rows it matches
CacheRowsOf(st, userID) == {r \in st.rows : r.user_id = userID}
FirstRow(rs) == CHOOSE r \in rs : \A q \in rs : r.id <= q.id

\* LoadNotes: [ok, notes, st]: the in-process entry if there is one, else the
\* persisted row, which is then copied into the in-process map
LoadNotes(st, userID) ==
    IF userID \in DOMAIN st.cache
    THEN [ok |-> TRUE, notes |-> st.cache[userID], st |-> st]
    ELSE IF cacheTable /\ CacheRowsOf(st, userID) # {}
    THEN LET ns == Unmarshal(FirstRow(CacheRowsOf(st, userID)).notes)
         IN [ok |-> TRUE, notes |-> ns,
             st |-> [st EXCEPT !.cache = CachePut(st.cache, userID, ns)]]
    ELSE [ok |-> FALSE, notes |-> {}, st |-> st]

\* SaveNotes: the in-process entry is set, then the persisted row is updated
\* if one exists and created otherwise; when the table does not exist the
\* transaction fails at its first statement, is rolled back and leaves the
\* in-process entry set (getNotes drops the error)
SaveNotes(st, userID, ns) ==
    LET mine == CacheRowsOf(st, userID)
        r == FirstRow(mine)
        rows == IF ~cacheTable THEN st.rows
                ELSE IF mine # {}
                THEN (st.rows \ {r}) \cup
                     {[r EXCEPT !.notes = Marshal(ns), !.expiry = st.now + CacheTTL]}
                ELSE st.rows \cup
                     {[id |-> NextID(st, "caches"), user_id |-> userID,
                       notes |-> Marshal(ns), expiry |-> st.now + CacheTTL]}
        created == cacheTable /\ mine = {}
    IN [st EXCEPT !.cache = CachePut(st.cache, userID, ns), !.rows = rows,
                  !.seq.caches = IF created THEN @ + 1 ELSE @]

\* SaveNotes' transaction, statement by statement: cache.Notes, cache.ExpiryDate
\* and tx.Save(&cache) for the row id that First found; tx.Create(&cache)
\* when it found none
CacheRowUpdate(st, id, ns) ==
    [st EXCEPT !.rows =
        {IF r.id = id
         THEN [r EXCEPT !.notes = Marshal(ns), !.expiry = st.now + CacheTTL]
         ELSE r : r \in st.rows}]

CacheRowCreate(st, userID, ns) ==
    [st EXCEPT !.rows = st.rows \cup
        {[id |-> NextID(st, "caches"), user_id |-> userID, notes |-> Marshal(ns),
          expiry |-> st.now + CacheTTL]},
               !.seq.caches = @ + 1]

\* an invalidation that leaves the in-process map as it is
ClearNotesCache_Keep(st) == st

\* ClearNotesCache: the in-process map is replaced by an empty one;
\* db.Delete(&Cache{}) has no condition, so GORM refuses it with
\* ErrMissingWhereClause and the persisted rows stay
ClearNotesCache(st) == [st EXCEPT !.cache = EmptyCache]

\* --------------------------------------------------------------- responses
\* a response: the status, what the body carries (msg is the text of an error
\* body, modelled for the login route), and the state left
Ret(st, status) ==
    [st |-> st, status |-> status, msg |-> "", note |-> NoNote, list |-> {},
     token |-> NoToken, user |-> NoUserRow]

\* c.Status(status).JSON(fiber.Map{"error": msg})
Err(st, status, msg) == [Ret(st, status) EXCEPT !.msg = msg]

\* the error of Login when no user has the username
MsgUnknownUser_Distinct == "User not found"

MsgUnknownUser == "Invalid username or password"

\* the error of Login when the password comparison fails
MsgWrongPassword == "Invalid username or password"

\* ---------------------------------------------------------------- handlers
\* Register from hashPassword to the answer (auth.go:65-77): the row is
\* created unless a unique index (username, email) refuses it, which is
\* answered 500
registerCreate(st, b) ==
    LET row == [id |-> NextID(st, "users"), username |-> b.username,
                email |-> b.email, password |-> hashPassword(b.password)]
    IN  IF \E u \in st.users : u.username = b.username \/ u.email = b.email
        THEN Ret(st, 500)
        ELSE [Ret(Reserved([st EXCEPT !.users = st.users \cup {row}],
                           "users", row.id), 201)
                 EXCEPT !.user = row]

\* Register: the username is looked up, the password hashed, the row created
\* (the unique index on email refuses a stored email); the response carries
\* the created user
Register(st, b) ==
    LET row == [id |-> NextID(st, "users"), username |-> b.username,
                email |-> b.email, password |-> hashPassword(b.password)]
    IN  IF ~b.json THEN Ret(st, 400)
        ELSE IF ~ValidateUser(b) THEN Ret(st, 400)
        ELSE IF \E u \in st.users : u.username = b.username THEN Ret(st, 400)
        ELSE IF \E u \in st.users : u.email = b.email THEN Ret(st, 500)
        ELSE [Ret(Reserved([st EXCEPT !.users = st.users \cup {row}],
                           "users", row.id), 201)
                 EXCEPT !.user = row]

\* Login: the user of the username, the password comparison, the token
Login(st, b) ==
    LET found == {u \in st.users : u.username = b.username}
        user == CHOOSE u \in found : TRUE
    IN  IF ~b.json THEN Err(st, 400, "Invalid input")
        ELSE IF found = {} THEN Err(st, 401, MsgUnknownUser)
        ELSE IF ~CompareHashAndPassword(user.password, b.password)
        THEN Err(st, 401, MsgWrongPassword)
        ELSE [Ret(st, 200) EXCEPT !.token = generateToken(st, user),
                                  !.user = user]

\* GetMe: the user AuthMiddleware stored in the request's context
GetMe(st, userID) == [Ret(st, 200) EXCEPT !.user = UserByID(st, userID)]

\* a list that answers 500 when the cache read returns an error
getNotes_CacheErrorFails(st, h) ==
    LET uid == getUserIDFromToken(st, h)
        L == LoadNotes(st, uid)
        fetched == fetchUserNotes(st, uid)
    IN  IF uid = 0 THEN Ret(st, 401)
        ELSE IF ~L.ok THEN Ret(st, 500)
        ELSE IF Cardinality(L.notes) = 0
        THEN [Ret(SaveNotes(L.st, uid, fetched), 200) EXCEPT !.list = fetched]
        ELSE [Ret(L.st, 200) EXCEPT !.list = L.notes]

\* a list that answers every cache entry, also one that holds no notes
getNotes_ServeEmpty(st, h) ==
    LET uid == getUserIDFromToken(st, h)
        L == LoadNotes(st, uid)
        fetched == fetchUserNotes(st, uid)
    IN  IF uid = 0 THEN Ret(st, 401)
        ELSE IF ~L.ok
        THEN [Ret(SaveNotes(L.st, uid, fetched), 200) EXCEPT !.list = fetched]
        ELSE [Ret(L.st, 200) EXCEPT !.list = L.notes]

\* getNotes: token, LoadNotes, and on an error or an empty list
\* fetchUserNotes and SaveNotes
getNotes(st, h) ==
    LET uid == getUserIDFromToken(st, h)
        L == LoadNotes(st, uid)
        fetched == fetchUserNotes(st, uid)
    IN  IF uid = 0 THEN Ret(st, 401)
        ELSE IF ~L.ok \/ Cardinality(L.notes) = 0
        THEN [Ret(SaveNotes(L.st, uid, fetched), 200) EXCEPT !.list = fetched]
        ELSE [Ret(L.st, 200) EXCEPT !.list = L.notes]

\* a create that does not call ClearNotesCache
createNote_NoClear(st, h, b) ==
    LET uid == getUserIDFromToken(st, h)
        row == [id |-> NextID(st, "notes"), user_id |-> OwnerWritten(st, uid, b.user),
                title |-> b.title, body |-> b.body, deleted_at |-> b.deleted_at]
    IN  IF ~b.json THEN Ret(st, 400)
        ELSE IF ~ValidateNoteStruct(b) THEN Ret(st, 400)
        ELSE IF uid = 0 THEN Ret(st, 401)
        ELSE [Ret(Reserved([AssocSaved(st, b.user)
                               EXCEPT !.notes = st.notes \cup {row}],
                           "notes", row.id), 201)
                 EXCEPT !.note = row]

\* createNote: parse, validate, token, note.UserID = userID,
\* database.Create(&note), ClearNotesCache
createNote(st, h, b) ==
    LET uid == getUserIDFromToken(st, h)
        row == [id |-> NextID(st, "notes"), user_id |-> OwnerWritten(st, uid, b.user),
                title |-> b.title, body |-> b.body, deleted_at |-> b.deleted_at]
    IN  IF ~b.json THEN Ret(st, 400)
        ELSE IF ~ValidateNoteStruct(b) THEN Ret(st, 400)
        ELSE IF uid = 0 THEN Ret(st, 401)
        ELSE [Ret(ClearNotesCache(
                    Reserved([AssocSaved(st, b.user)
                                 EXCEPT !.notes = st.notes \cup {row}],
                             "notes", row.id)), 201)
                 EXCEPT !.note = row]

\* database.Save(&note) of a row of table notes: UPDATE of every column by
\* primary key, and, when that changes no row (none has the id, or the one
\* that has it is soft-deleted), INSERT ... ON CONFLICT (id) DO UPDATE of every
\* column: either way the table then holds the row as given
SaveNote(st, row) ==
    [st EXCEPT !.notes = {n \in st.notes : n.id # row.id} \cup {row}]

\* updateNote from note.ID = noteID to the return of database.Save(&note)
updateNoteSave(st, uid, id, b) ==
    SaveNote(AssocSaved(st, b.user),
             [id |-> id, user_id |-> OwnerWritten(st, uid, b.user),
              title |-> b.title, body |-> b.body, deleted_at |-> b.deleted_at])

\* deleteNote from currentTime := time.Now() to the return of
\* database.Save(&existingNote), for the row old that its lookup read
deleteNoteSave(st, old) == SaveNote(st, [old EXCEPT !.deleted_at = st.now])

\* an update whose stored title depends on the title the row had: the request's
\* title, or the other title when the row already has the request's
updateNote_Toggle(st, h, id, b) ==
    LET uid == getUserIDFromToken(st, h)
        old == CHOOSE n \in existingNote(st, id, uid) : TRUE
        row == [id |-> id, user_id |-> OwnerWritten(st, uid, b.user),
                title |-> IF old.title # b.title THEN b.title
                          ELSE CHOOSE t \in Titles : t # b.title,
                body |-> b.body, deleted_at |-> b.deleted_at]
    IN  IF id < 0 \/ ~b.json \/ ~ValidateNoteStruct(b) THEN Ret(st, 400)
        ELSE IF uid = 0 THEN Ret(st, 401)
        ELSE IF existingNote(st, id, uid) = {} THEN Ret(st, 404)
        ELSE [Ret(ClearNotesCache(
                    [st EXCEPT !.notes = {n \in st.notes : n.id # id} \cup {row}]),
                  200)
                 EXCEPT !.note = row]

\* an update that clears the cache also when database.Save fails
updateNote_ClearOnError(st, h, id, b) ==
    LET uid == getUserIDFromToken(st, h)
        row == [id |-> id, user_id |-> OwnerWritten(st, uid, b.user),
                title |-> b.title, body |-> b.body, deleted_at |-> b.deleted_at]
    IN  IF id < 0 \/ ~b.json \/ ~ValidateNoteStruct(b) THEN Ret(st, 400)
        ELSE IF uid = 0 THEN Ret(st, 401)
        ELSE IF existingNote(st, id, uid) = {} THEN Ret(st, 404)
        ELSE IF st.saveErr THEN Ret(ClearNotesCache(st), 500)
        ELSE [Ret(ClearNotesCache(
                    [AssocSaved(st, b.user)
                        EXCEPT !.notes = {n \in st.notes : n.id # id} \cup {row}]),
                  200)
                 EXCEPT !.note = row]

\* updateNote: id (one that strconv.ParseUint rejects is -1), parse, validate,
\* token, ownership lookup, note.ID = id, note.UserID = userID,
\* database.Save(&note) (every column is written from the request's note; on
\* its error, whose transaction GORM rolls back, 500), ClearNotesCache
updateNote(st, h, id, b) ==
    LET uid == getUserIDFromToken(st, h)
        row == [id |-> id, user_id |-> OwnerWritten(st, uid, b.user),
                title |-> b.title, body |-> b.body, deleted_at |-> b.deleted_at]
    IN  IF id < 0 THEN Ret(st, 400)
        ELSE IF ~b.json THEN Ret(st, 400)
        ELSE IF ~ValidateNoteStruct(b) THEN Ret(st, 400)
        ELSE IF uid = 0 THEN Ret(st, 401)
        ELSE IF existingNote(st, id, uid) = {} THEN Ret(st, 404)
        ELSE IF st.saveErr THEN Ret(st, 500)
        ELSE [Ret(ClearNotesCache(
                    [AssocSaved(st, b.user)
                        EXCEPT !.notes = {n \in st.notes : n.id # id} \cup {row}]),
                  200)
                 EXCEPT !.note = row]

\* deleteNote: id, token, ownership lookup, existingNote.DeletedAt = &now,
\* database.Save(&existingNote) (on its error 500), ClearNotesCache
deleteNote(st, h, id) ==
    LET uid == getUserIDFromToken(st, h)
        old == CHOOSE n \in existingNote(st, id, uid) : TRUE
        row == [old EXCEPT !.deleted_at = st.now]
    IN  IF id < 0 THEN Ret(st, 400)
        ELSE IF uid = 0 THEN Ret(st, 401)
        ELSE IF existingNote(st, id, uid) = {} THEN Ret(st, 404)
        ELSE IF st.saveErr THEN Ret(st, 500)
        ELSE Ret(ClearNotesCache(
                    [st EXCEPT !.notes = {n \in st.notes : n.id # id} \cup {row}]),
                 204)

\* ------------------------------------------------------------------ routes
\* What main() and defineRoutes install for a method and a path: the
\* middleware of app.Use for the path's prefix, which runs for every method,
\* then the route's handlers.

\* POST /register: handlers.ValidateUser, Register
POST_register(st, b) ==
    IF ~(b.json /\ ValidateUser(b)) THEN Ret(st, 400) ELSE Register(st, b)

\* POST /login: handlers.ValidateLogin, Login
POST_login(st, b) ==
    IF ~b.json THEN Err(st, 400, "Invalid input")
    ELSE IF ~ValidateLogin(b) THEN Err(st, 400, "Validation failed")
    ELSE Login(st, b)

\* GET /me: AuthMiddleware, GetMe
GET_me(st, h) ==
    IF AuthMiddleware(st, h) = 0 THEN Ret(st, 401)
    ELSE GetMe(st, AuthMiddleware(st, h))

\* GET /notes: handlers.ValidateNote, NotesHandler
GET_notes(st, h, b) ==
    IF ~ValidateNote(b) THEN Ret(st, 400) ELSE getNotes(st, h)

\* POST /notes: handlers.ValidateNote, NotesHandler
POST_notes(st, h, b) ==
    IF ~ValidateNote(b) THEN Ret(st, 400) ELSE createNote(st, h, b)

\* PUT /notes/:id: handlers.ValidateNote, NotesHandler
PUT_notes(st, h, id, b) ==
    IF ~ValidateNote(b) THEN Ret(st, 400) ELSE updateNote(st, h, id, b)

\* DELETE /notes/:id: handlers.ValidateNote, NotesHandler
DELETE_notes(st, h, id, b) ==
    IF ~ValidateNote(b) THEN Ret(st, 400) ELSE deleteNote(st, h, id)

\* ----------------------------------------------------------------- inputs
EmailOf(name) ==
    CASE name = "alice" -> "a@x.com"
      [] name = "bob" -> "b@x.com"
      [] OTHER -> "c@x.com"

\* a request body of POST /register
RegisterBodies ==
    [json : {TRUE}, username : {"alice", "bob", "al"},
     password : {"password1", "short"}, first_name : {"A"}, last_name : {"L"},
     email : {"a@x.com", "b@x.com"}]
    \cup {[json |-> FALSE, username |-> "", password |-> "", first_name |-> "",
           last_name |-> "", email |-> ""]}

\* a request body of POST /login
LoginBodies ==
    [json : {TRUE}, username : {"alice", "bob", ""},
     password : {"password1", "password2", ""}]
    \cup {[json |-> FALSE, username |-> "", password |-> ""]}

\* the User object nested in a note body
NestedUser(i, n) ==
    [id |-> i, username |-> n, password |-> "password1", first_name |-> "A",
     last_name |-> "L", email |-> EmailOf(n)]

\* the first and the second account
NestedUsers == {NestedUser(1, "alice"), NestedUser(2, "bob")}

BadBody == [json |-> FALSE, user_id |-> 0, title |-> "", body |-> "",
            deleted_at |-> 0, user |-> ZeroUser]

\* a request body of a /notes route: one that does not parse, ones that fail
\* validation (no user_id, no title, no nested user), and valid ones, one of
\* them with a deleted_at of its own
NoteBodies ==
    {BadBody}
    \cup [json : {TRUE}, user_id : {0}, title : {"T1"}, body : {"B1"},
          deleted_at : {0}, user : {NestedUser(1, "alice")}]
    \cup [json : {TRUE}, user_id : {1}, title : {"", "T1"}, body : {"B1"},
          deleted_at : {0}, user : {ZeroUser}]
    \cup [json : {TRUE}, user_id : {2}, title : Titles, body : Texts,
          deleted_at : {0}, user : NestedUsers]
    \cup [json : {TRUE}, user_id : {2}, title : {"T1"}, body : {"B1"},
          deleted_at : {1}, user : {NestedUser(1, "alice")}]

\* the bodies GET and DELETE are tried with: only their validity is read
ProbeBodies ==
    {BadBody,
     [json |-> TRUE, user_id |-> 1, title |-> "T1", body |-> "B1",
      deleted_at |-> 0, user |-> ZeroUser],
     [json |-> TRUE, user_id |-> 1, title |-> "T1", body |-> "B1",
      deleted_at |-> 0, user |-> NestedUser(1, "alice")]}

ValidProbes == {g \in ProbeBodies : ValidateNote(g)}

\* the note id of the path: one that does not parse, and the row ids
PathIDs == {-1} \cup 1..MaxNotes

\* the headers of the notes specification: none, and a live token of each of
\* the first two users under the verification key
LiveToken(u) == [form |-> "jwt", uid |-> u, key |-> "s1",
                 exp |-> MaxTime + TokenTTL]
NoteHeaders == {NoHeader} \cup {Bearer(LiveToken(u)) : u \in {1, 2}}

\* the headers of the authorization specification: none, and, with and without
\* the scheme prefix, a live token of the first account and of an id that no
\* account has, under each key
AuthTokens == [form : {"jwt"}, uid : {1, MaxUsers}, key : EnvValues,
               exp : {MaxTime + TokenTTL}]
AuthHeaders == {NoHeader} \cup {Bearer(t) : t \in AuthTokens}
MeHeaders == AuthHeaders \cup {[Bearer(t) EXCEPT !.scheme = ""] : t \in AuthTokens}

\* the headers of the /notes requests of the authorization specification:
\* none, and a live token of id 1 under each key (the id of no account until
\* a first row of users is stored, of the first account from then on)
FirstIDHeaders == {h \in AuthHeaders : h.present => h.tok.uid = 1}

\* a worker between requests; in a request: where it stands (pc), the token's
\* user (uid), the notes it holds in a local variable (snap), the path id and
\* the parsed body
Idle == [pc |-> "idle", uid |-> 0, snap |-> {}, id |-> 0, body |-> BadBody]
NoneInFlight == [w \in Workers |-> Idle]

\* sync.RWMutex{}: held by no one (writer 0), no reader awaited, no wake-up
\* pending
Unlocked == [readers |-> {}, writer |-> 0, readerWait |-> 0, readerSem |-> 0]

\* ---------------------------------------------------------------- actions
\* a request is served: the state its handler leaves becomes the state
Serve(o) ==
    /\ Cardinality(o.st.users) <= MaxUsers
    /\ Cardinality(o.st.notes) <= MaxNotes
    /\ users' = o.st.users
    /\ notes' = o.st.notes
    /\ notesCache' = o.st.cache
    /\ cacheRows' = o.st.rows
    /\ sqlite_sequence' = o.st.seq
    /\ UNCHANGED <<now, cacheTable, jwtSecret, jwtSecretKey, inflight,
                   cacheMutex>>

Tick ==
    /\ now < MaxTime
    /\ now' = now + 1
    /\ UNCHANGED <<users, notes, notesCache, cacheRows, cacheTable, jwtSecret,
                   jwtSecretKey, sqlite_sequence, inflight, cacheMutex>>

\* ---------------------------------------------------------- specifications
\* Init: the state two registrations leave in a new database (alice and bob,
\* ids 1 and 2; InitGormDB has made the tables users and notes, and no table
\* caches), with both environment variables set to the same key
RegisteredUsers ==
    {[id |-> 1, username |-> "alice", email |-> "a@x.com",
      password |-> hashPassword("password1")],
     [id |-> 2, username |-> "bob", email |-> "b@x.com",
      password |-> hashPassword("password1")]}

Init ==
    /\ users = RegisteredUsers
    /\ sqlite_sequence = [users |-> 2, notes |-> 0, caches |-> 0]
    /\ notes = {}
    /\ notesCache = EmptyCache
    /\ cacheRows = {}
    /\ now = 1
    /\ cacheTable = FALSE
    /\ jwtSecret = "s1"
    /\ jwtSecretKey = "s1"
    /\ inflight = NoneInFlight
    /\ cacheMutex = Unlocked

\* SpecAuth: registration, login and the authorization of every protected
\* route, from the database InitGormDB leaves (tables users and notes, empty,
\* and no table caches), for every setting of the two environment variables
InitAuth ==
    /\ users = {}
    /\ sqlite_sequence = [users |-> 0, notes |-> 0, caches |-> 0]
    /\ notes = {}
    /\ notesCache = EmptyCache
    /\ cacheRows = {}
    /\ now = 1
    /\ cacheTable = FALSE
    /\ jwtSecret \in EnvValues
    /\ jwtSecretKey \in EnvValues
    /\ inflight = NoneInFlight
    /\ cacheMutex = Unlocked

\* SpecConc: the notes routes served by concurrent workers.  Fiber runs each
\* request on its own goroutine, so the statements of one handler interleave
\* with those of another at its calls on the shared resources: the notes
\* table, and the cache that cacheMutex guards call by call.  A list is the
\* steps LoadNotes, fetchUserNotes, SaveNotes; a create, update or delete is
\* its statements on the notes table, then ClearNotesCache.
InitConc ==
    /\ users = RegisteredUsers
    /\ sqlite_sequence = [users |-> 2, notes |-> 0, caches |-> 0]
    /\ notes = {}
    /\ notesCache = EmptyCache
    /\ cacheRows = {}
    /\ now = 1
    /\ cacheTable = FALSE
    /\ jwtSecret = "s1"
    /\ jwtSecretKey = "s1"
    /\ inflight = NoneInFlight
    /\ cacheMutex = Unlocked

\* the bodies of the concurrent requests: two valid ones that set no
\* deleted_at, one for each title and nested user
ConcBodies ==
    {b \in NoteBodies : /\ ValidateNote(b)
                        /\ b.deleted_at = 0
                        /\ (b.title = "T1") = (b.user.id = 1)}

\* a step of worker w that leaves the state st and takes w to position p
Step(w, st, p) ==
    /\ users' = st.users
    /\ notes' = st.notes
    /\ notesCache' = st.cache
    /\ cacheRows' = st.rows
    /\ sqlite_sequence' = st.seq
    /\ inflight' = [inflight EXCEPT ![w] = p]
    /\ UNCHANGED <<now, cacheTable, jwtSecret, jwtSecretKey, cacheMutex>>

\* getNotes up to the return of LoadNotes (notes.go:38-46): a hit is answered
\* at once, a miss goes on to fetchUserNotes
ListLoad ==
    \E w \in Workers, h \in NoteHeaders, b \in ConcBodies :
        LET uid == getUserIDFromToken(State, h)
            L == LoadNotes(State, uid)
        IN  /\ inflight[w].pc = "idle"
            /\ uid # 0
            /\ IF ~L.ok \/ Cardinality(L.notes) = 0
               THEN Step(w, L.st, [Idle EXCEPT !.pc = "fetch", !.uid = uid])
               ELSE Step(w, L.st, Idle)

\* getNotes: notes, err = fetchUserNotes(database, userID) (notes.go:47)
ListFetch ==
    \E w \in Workers :
        /\ inflight[w].pc = "fetch"
        /\ Step(w, State, [inflight[w] EXCEPT
                              !.pc = "save",
                              !.snap = fetchUserNotes(State, inflight[w].uid)])

\* getNotes: models.SaveNotes(database, userID, notes) and the answer
\* (notes.go:52-56)
ListSave ==
    \E w \in Workers :
        /\ inflight[w].pc = "save"
        /\ Step(w, SaveNotes(State, inflight[w].uid, inflight[w].snap), Idle)

\* a served create up to database.Create(&note): the tables are as the handler leaves them, the cache as it was
Written(w, o) ==
    /\ inflight[w].pc = "idle"
    /\ o.status \in {200, 201, 204}
    /\ Cardinality(o.st.users) <= MaxUsers
    /\ Cardinality(o.st.notes) <= MaxNotes
    /\ Step(w, [o.st EXCEPT !.cache = notesCache, !.rows = cacheRows],
            [Idle EXCEPT !.pc = "clear"])

ConcCreate ==
    \E w \in Workers, h \in NoteHeaders, b \in ConcBodies :
        Written(w, POST_notes(State, h, b))
\* updateNote up to the return of its ownership lookup (notes.go:105-140)
ConcUpdate ==
    \E w \in Workers, h \in NoteHeaders, id \in PathIDs, b \in ConcBodies :
        /\ inflight[w].pc = "idle"
        /\ PUT_notes(State, h, id, b).status = 200
        /\ Step(w, State, [Idle EXCEPT !.pc = "put", !.id = id, !.body = b,
                                       !.uid = getUserIDFromToken(State, h)])

\* updateNote: note.ID = noteID, note.UserID = userID, database.Save(&note)
\* (notes.go:143-147)
UpdSave ==
    \E w \in Workers :
        LET st == updateNoteSave(State, inflight[w].uid, inflight[w].id,
                                 inflight[w].body)
        IN  /\ inflight[w].pc = "put"
            /\ Cardinality(st.users) <= MaxUsers
            /\ Step(w, st, [Idle EXCEPT !.pc = "clear"])

\* deleteNote up to the return of its ownership lookup (notes.go:157-180):
\* existingNote holds the row as it was read
ConcDelete ==
    \E w \in Workers, h \in NoteHeaders, id \in PathIDs, b \in ConcBodies :
        /\ inflight[w].pc = "idle"
        /\ DELETE_notes(State, h, id, b).status = 204
        /\ Step(w, State,
                [Idle EXCEPT !.pc = "del", !.id = id,
                             !.uid = getUserIDFromToken(State, h),
                             !.snap = existingNote(State, id,
                                                   getUserIDFromToken(State, h))])

\* deleteNote: existingNote.DeletedAt = &currentTime,
\* database.Save(&existingNote) (notes.go:183-188)
DelSave ==
    \E w \in Workers :
        /\ inflight[w].pc = "del"
        /\ Step(w, deleteNoteSave(State, CHOOSE n \in inflight[w].snap : TRUE),
                [Idle EXCEPT !.pc = "clear"])

\* models.ClearNotesCache(database) and the answer, the end of createNote,
\* updateNote and deleteNote
MutClear ==
    \E w \in Workers :
        /\ inflight[w].pc = "clear"
        /\ Step(w, ClearNotesCache(State), Idle)

NextConc ==
    \/ ListLoad \/ ListFetch \/ ListSave
    \/ ConcCreate \/ ConcUpdate \/ UpdSave \/ ConcDelete \/ DelSave \/ MutClear

SpecConc == InitConc /\ [][NextConc]_vars

\* SpecAuth: the requests step by step, as in Spec, in flight together on the
\* concurrent workers.

\* Register up to the return of its username lookup (auth.go:30-62)
ReqRegister ==
    \E w \in Workers, b \in RegisterBodies :
        /\ inflight[w].pc = "idle"
        /\ POST_register(State, b).status \in {201, 500}
        /\ Step(w, State, [Idle EXCEPT !.pc = "reg", !.body = b])

\* Register: hashPassword, database.Create(&user) and the answer
\* (auth.go:65-77)
RegCreate ==
    \E w \in Workers :
        /\ inflight[w].pc = "reg"
        /\ Cardinality(registerCreate(State, inflight[w].body).st.users) <= MaxUsers
        /\ Step(w, registerCreate(State, inflight[w].body).st, Idle)

\* Login and GetMe read table users once
ReqLogin == \E b \in LoginBodies : Serve(POST_login(State, b))
ReqMe == \E h \in MeHeaders : Serve(GET_me(State, h))

\* getNotes up to the return of LoadNotes
AuthList ==
    \E w \in Workers, h \in FirstIDHeaders, b \in ValidProbes :
        LET uid == getUserIDFromToken(State, h)
            L == LoadNotes(State, uid)
        IN  /\ inflight[w].pc = "idle"
            /\ uid # 0
            /\ IF ~L.ok \/ Cardinality(L.notes) = 0
               THEN Step(w, L.st, [Idle EXCEPT !.pc = "fetch", !.uid = uid])
               ELSE Step(w, L.st, Idle)

\* createNote up to the return of database.Create(&note), while table notes
\* has fewer than MaxAuthNotes rows
AuthCreate ==
    \E w \in Workers, h \in FirstIDHeaders, b \in ProbeBodies :
        Cardinality(notes) < MaxAuthNotes /\ Written(w, POST_notes(State, h, b))

\* updateNote up to the return of its ownership lookup
AuthUpdate ==
    \E w \in Workers, h \in FirstIDHeaders, id \in PathIDs, b \in ProbeBodies :
        /\ inflight[w].pc = "idle"
        /\ PUT_notes(State, h, id, b).status = 200
        /\ Step(w, State, [Idle EXCEPT !.pc = "put", !.id = id, !.body = b,
                                       !.uid = getUserIDFromToken(State, h)])

\* deleteNote up to the return of its ownership lookup
AuthDelete ==
    \E w \in Workers, h \in FirstIDHeaders, id \in PathIDs, b \in ProbeBodies :
        /\ inflight[w].pc = "idle"
        /\ DELETE_notes(State, h, id, b).status = 204
        /\ Step(w, State,
                [Idle EXCEPT !.pc = "del", !.id = id,
                             !.uid = getUserIDFromToken(State, h),
                             !.snap = existingNote(State, id,
                                                   getUserIDFromToken(State, h))])

NextAuth ==
    \/ ReqRegister \/ RegCreate \/ ReqLogin \/ ReqMe
    \/ AuthList \/ ListFetch \/ ListSave
    \/ AuthCreate \/ AuthUpdate \/ UpdSave \/ AuthDelete \/ DelSave \/ MutClear
    \/ Tick

SpecAuth == InitAuth /\ [][NextAuth]_vars

\* Spec: the notes routes, served by the
\* concurrent workers step by step as in SpecConc: a list is ListLoad,
\* ListFetch, ListSave; a create is ReqCreate, MutClear; an update is
\* ReqUpdate, UpdSave or UpdSaveFails, MutClear; a delete is ReqDelete, DelSave
\* or DelSaveFails, MutClear.  A request that is answered 400, 401 or 404
\* changes nothing and is no step.

\* the bodies of the requests of Spec: those of SpecConc, and the valid one
\* that sets a deleted_at
SpecBodies == ConcBodies \cup {b \in NoteBodies : b.deleted_at # 0}

\* createNote up to the return of database.Create(&note) (notes.go:71-96)
ReqCreate ==
    \E w \in Workers, h \in NoteHeaders, b \in SpecBodies :
        Written(w, POST_notes(State, h, b))

\* updateNote up to the return of its ownership lookup (notes.go:105-140)
ReqUpdate ==
    \E w \in Workers, h \in NoteHeaders, id \in PathIDs, b \in SpecBodies :
        /\ inflight[w].pc = "idle"
        /\ PUT_notes(State, h, id, b).status = 200
        /\ Step(w, State, [Idle EXCEPT !.pc = "put", !.id = id, !.body = b,
                                       !.uid = getUserIDFromToken(State, h)])

\* deleteNote up to the return of its ownership lookup (notes.go:157-180)
ReqDelete ==
    \E w \in Workers, h \in NoteHeaders, id \in PathIDs, b \in SpecBodies :
        /\ inflight[w].pc = "idle"
        /\ DELETE_notes(State, h, id, b).status = 204
        /\ Step(w, State,
                [Idle EXCEPT !.pc = "del", !.id = id,
                             !.uid = getUserIDFromToken(State, h),
                             !.snap = existingNote(State, id,
                                                   getUserIDFromToken(State, h))])

\* updateNote, deleteNote: database.Save returns an error and the handler
\* answers 500 (notes.go:145-147, 186-188)
UpdSaveFails ==
    \E w \in Workers :
        /\ inflight[w].pc = "put"
        /\ Step(w, State, Idle)

DelSaveFails ==
    \E w \in Workers :
        /\ inflight[w].pc = "del"
        /\ Step(w, State, Idle)

Next ==
    \/ ListLoad \/ ListFetch \/ ListSave
    \/ ReqCreate \/ ReqUpdate \/ UpdSave \/ UpdSaveFails
    \/ ReqDelete \/ DelSave \/ DelSaveFails \/ MutClear

Spec == Init /\ [][Next]_vars

\* SpecLock: the notes routes served by concurrent workers, with the cache
\* functions LoadNotes, SaveNotes and ClearNotesCache taken statement by
\* statement: the acquisition of cacheMutex, each access of the map
\* notesCache, each statement on table caches, the deferred release.  The
\* database has no table caches, so LoadNotes never reaches its assignment of
\* the map (LoadPut) and SaveNotes never writes a row (SaveRow): the two and
\* the fatal error of a racing access (RaceFatal) are steps the program
\* cannot take and are not part of NextLock.
LockWorkers == 1..MaxLockWorkers

InitLock ==
    /\ users = RegisteredUsers
    /\ sqlite_sequence = [users |-> 2, notes |-> 0, caches |-> 0]
    /\ notes = {}
    /\ notesCache = EmptyCache
    /\ cacheRows = {}
    /\ now = 1
    /\ cacheTable = FALSE
    /\ jwtSecret = "s1"
    /\ jwtSecretKey = "s1"
    /\ inflight = [w \in LockWorkers |-> Idle]
    /\ cacheMutex = Unlocked

\* the goroutines after a fatal error of the runtime: the process has exited
Fatal == [Idle EXCEPT !.pc = "fatal"]

\* a step of worker w in a cache function: the state st, the position p and
\* the mutex mu it leaves
Move(w, st, p, mu) ==
    /\ users' = st.users
    /\ notes' = st.notes
    /\ notesCache' = st.cache
    /\ cacheRows' = st.rows
    /\ sqlite_sequence' = st.seq
    /\ inflight' = [inflight EXCEPT ![w] = p]
    /\ cacheMutex' = mu
    /\ UNCHANGED <<now, cacheTable, jwtSecret, jwtSecretKey>>

\* sync.RWMutex.  Lock() takes the mutex of the writers (rw.w.Lock()),
\* announces the writer to the readers (readerCount goes negative) and waits
\* until as many readers have left as were counted at the announcement
\* (readerWait).  RLock() returns at once when no writer has announced itself;
\* otherwise it acquires the semaphore readerSem: it takes a count that is
\* there, and parks when there is none.  Unlock() counts the parked readers in
\* again, releases readerSem once for each of them and releases the writers'
\* mutex.  The release hands nothing over: a parked reader that wakes takes
\* the count only if no RLock() that arrived behind the next writer has taken
\* it before, and parks again otherwise.  cacheMutex.writer is the writer that
\* has announced itself, cacheMutex.readers the readers whose RLock() has
\* returned, cacheMutex.readerWait the departures the writer waits for,
\* cacheMutex.readerSem the count of the semaphore.
CanRLock == cacheMutex.writer = 0
CanAnnounce == cacheMutex.writer = 0
CanLock(w) == cacheMutex.writer = w /\ cacheMutex.readerWait = 0

\* runtime_SemacquireRWMutexR(&rw.readerSem): a count can be taken
CanSemacquire == cacheMutex.readerSem > 0

\* the readers parked in RLock()
BlockedReaders == {v \in LockWorkers : inflight[v].pc = "rlock_wait"}

\* the acquisition of cacheMutex that the function of a statement has made
\* before the statement: LoadNotes RLock(), SaveNotes and ClearNotesCache
\* Lock()
HeldAt(pc) ==
    CASE pc \in {"load_read", "load_put", "runlock_hit", "runlock_miss"} -> "RLock"
      [] pc \in {"save_put", "save_first", "save_update", "save_create",
                 "clear_put", "unlock"} -> "Lock"
      [] OTHER -> "none"

\* the statements that assign the map notesCache: in LoadNotes, SaveNotes and
\* ClearNotesCache
MapWrites == {"load_put", "save_put", "clear_put"}

\* worker w is at a read of the map (notesCache[userID] in LoadNotes), at an
\* assignment of the map (in LoadNotes, SaveNotes, ClearNotesCache)
MapRead(w) == inflight[w].pc = "load_read"
MapWrite(w) == inflight[w].pc \in MapWrites

\* w's access of the map is unordered with a conflicting access of another
\* worker: a data race
Racing(w) ==
    \E v \in LockWorkers \ {w} :
        \/ MapWrite(w) /\ (MapRead(v) \/ MapWrite(v))
        \/ MapRead(w) /\ MapWrite(v)

\* the requests of the lock specification: the first user's, with one body
LockHeader == Bearer(LiveToken(1))
LockBody == CHOOSE b \in ConcBodies : b.user.id = 1

\* getNotes up to its call of LoadNotes
LkList(w) ==
    /\ inflight[w].pc = "idle"
    /\ getUserIDFromToken(State, LockHeader) # 0
    /\ GET_notes(State, LockHeader, LockBody).status = 200
    /\ Move(w, State,
            [Idle EXCEPT !.pc = "load",
                         !.uid = getUserIDFromToken(State, LockHeader)],
            cacheMutex)

\* createNote up to its call of ClearNotesCache, while table notes has fewer
\* than MaxLockNotes rows; updateNote and deleteNote up to the return of their
\* ownership lookup
LkMutate(w) ==
    \E id \in PathIDs :
        LET uid == getUserIDFromToken(State, LockHeader)
        IN  \/ /\ Cardinality(notes) < MaxLockNotes
               /\ Written(w, POST_notes(State, LockHeader, LockBody))
            \/ /\ inflight[w].pc = "idle"
               /\ PUT_notes(State, LockHeader, id, LockBody).status = 200
               /\ Step(w, State, [Idle EXCEPT !.pc = "put", !.id = id,
                                              !.body = LockBody, !.uid = uid])
            \/ /\ inflight[w].pc = "idle"
               /\ DELETE_notes(State, LockHeader, id, LockBody).status = 204
               /\ Step(w, State, [Idle EXCEPT !.pc = "del", !.id = id, !.uid = uid,
                                              !.snap = existingNote(State, id, uid)])

\* updateNote, deleteNote: database.Save, up to the call of ClearNotesCache
LkSave(w) ==
    \/ /\ inflight[w].pc = "put"
       /\ Step(w, updateNoteSave(State, inflight[w].uid, inflight[w].id,
                                  inflight[w].body),
               [Idle EXCEPT !.pc = "clear"])
    \/ /\ inflight[w].pc = "del"
       /\ Step(w, deleteNoteSave(State, CHOOSE n \in inflight[w].snap : TRUE),
               [Idle EXCEPT !.pc = "clear"])

\* LoadNotes: cacheMutex.RLock().  With no writer announced it returns; behind
\* a writer it takes a count of readerSem and returns, or parks
RLock(w) ==
    /\ inflight[w].pc = "load"
    /\ IF CanRLock
       THEN Move(w, State, [inflight[w] EXCEPT !.pc = "load_read"],
                 [cacheMutex EXCEPT !.readers = @ \cup {w}])
       ELSE IF CanSemacquire
       THEN Move(w, State, [inflight[w] EXCEPT !.pc = "load_read"],
                 [cacheMutex EXCEPT !.readers = @ \cup {w}, !.readerSem = @ - 1])
       ELSE Move(w, State, [inflight[w] EXCEPT !.pc = "rlock_wait"], cacheMutex)

\* LoadNotes: the parked cacheMutex.RLock() takes a count of readerSem and
\* returns
RLockWoken(w) ==
    /\ inflight[w].pc = "rlock_wait"
    /\ CanSemacquire
    /\ Move(w, State, [inflight[w] EXCEPT !.pc = "load_read"],
            [cacheMutex EXCEPT !.readers = @ \cup {w}, !.readerSem = @ - 1])

\* LoadNotes: notesCache[userID], and when the map has no entry
\* db.Where("user_id = ?", userID).First(&cache) and json.Unmarshal
LoadRead(w) ==
    LET uid == inflight[w].uid
        mine == CacheRowsOf(State, uid)
    IN  /\ inflight[w].pc = "load_read"
        /\ Move(w, State,
                IF uid \in DOMAIN notesCache
                THEN [inflight[w] EXCEPT !.pc = "runlock_hit",
                                         !.snap = notesCache[uid]]
                ELSE IF cacheTable /\ mine # {}
                THEN [inflight[w] EXCEPT !.pc = "load_put",
                                         !.snap = Unmarshal(FirstRow(mine).notes)]
                ELSE [inflight[w] EXCEPT !.pc = "runlock_miss"],
                cacheMutex)

\* LoadNotes: notesCache[userID] = notes
LoadPut(w) ==
    /\ inflight[w].pc = "load_put"
    /\ Move(w, [State EXCEPT !.cache = CachePut(notesCache, inflight[w].uid,
                                                 inflight[w].snap)],
            [inflight[w] EXCEPT !.pc = "runlock_hit"], cacheMutex)

\* LoadNotes: the deferred cacheMutex.RUnlock(), which a writer that has
\* announced itself counts as a departure; getNotes answers a hit that holds
\* notes and goes on to fetchUserNotes otherwise
RUnlock(w) ==
    /\ inflight[w].pc \in {"runlock_hit", "runlock_miss"}
    /\ Move(w, State,
            IF inflight[w].pc = "runlock_hit" /\ inflight[w].snap # {}
            THEN Idle
            ELSE [Idle EXCEPT !.pc = "fetch", !.uid = inflight[w].uid],
            [cacheMutex EXCEPT !.readers = @ \ {w},
                               !.readerWait = IF cacheMutex.writer # 0
                                              THEN @ - 1 ELSE @])

\* getNotes: fetchUserNotes, up to the call of SaveNotes
LkFetch(w) ==
    /\ inflight[w].pc = "fetch"
    /\ Move(w, State,
            [inflight[w] EXCEPT !.pc = "save",
                                !.snap = fetchUserNotes(State, inflight[w].uid)],
            cacheMutex)

\* SaveNotes, ClearNotesCache: cacheMutex.Lock() takes the writers' mutex,
\* announces the writer and counts the readers it has to wait for: those that
\* hold the mutex and those that the last Unlock() has counted in
LockAnnounce(w) ==
    /\ inflight[w].pc \in {"save", "clear"}
    /\ CanAnnounce
    /\ Move(w, State,
            [inflight[w] EXCEPT !.pc = IF @ = "save" THEN "save_wait"
                                       ELSE "clear_wait"],
            [cacheMutex EXCEPT !.writer = w,
                               !.readerWait = Cardinality(cacheMutex.readers)
                                              + Cardinality(BlockedReaders)])

\* SaveNotes, ClearNotesCache: cacheMutex.Lock() returns when the readers it
\* waits for have left
Lock(w) ==
    /\ inflight[w].pc \in {"save_wait", "clear_wait"}
    /\ CanLock(w)
    /\ Move(w, State,
            [inflight[w] EXCEPT !.pc = IF @ = "save_wait" THEN "save_put"
                                       ELSE "clear_put"],
            cacheMutex)

\* SaveNotes: notesCache[userID] = notes
SavePut(w) ==
    /\ inflight[w].pc = "save_put"
    /\ Move(w, [State EXCEPT !.cache = CachePut(notesCache, inflight[w].uid,
                                                 inflight[w].snap)],
            [inflight[w] EXCEPT !.pc = "save_first"], cacheMutex)

\* SaveNotes: tx.Where("user_id = ?", userID).First(&cache), an error other
\* than ErrRecordNotFound when the table does not exist
SaveFirst(w) ==
    LET mine == CacheRowsOf(State, inflight[w].uid)
    IN  /\ inflight[w].pc = "save_first"
        /\ Move(w, State,
                IF ~cacheTable THEN [inflight[w] EXCEPT !.pc = "unlock"]
                ELSE IF mine # {}
                THEN [inflight[w] EXCEPT !.pc = "save_update",
                                         !.id = FirstRow(mine).id]
                ELSE [inflight[w] EXCEPT !.pc = "save_create"],
                cacheMutex)

\* SaveNotes: tx.Save(&cache) of the row found, tx.Create(&cache) otherwise
SaveRow(w) ==
    /\ inflight[w].pc \in {"save_update", "save_create"}
    /\ Move(w,
            IF inflight[w].pc = "save_update"
            THEN CacheRowUpdate(State, inflight[w].id, inflight[w].snap)
            ELSE CacheRowCreate(State, inflight[w].uid, inflight[w].snap),
            [inflight[w] EXCEPT !.pc = "unlock"], cacheMutex)

\* ClearNotesCache: notesCache = make(map[int][]Note), db.Delete(&Cache{})
ClearPut(w) ==
    /\ inflight[w].pc = "clear_put"
    /\ Move(w, ClearNotesCache(State), [inflight[w] EXCEPT !.pc = "unlock"],
            cacheMutex)

\* SaveNotes, ClearNotesCache: the deferred cacheMutex.Unlock(), which
\* releases readerSem once for every parked reader, and the answer
Unlock(w) ==
    /\ inflight[w].pc = "unlock"
    /\ Move(w, State, Idle,
            [cacheMutex EXCEPT !.writer = 0,
                               !.readerSem = @ + Cardinality(BlockedReaders)])

\* an access of the map in a data race: the runtime may detect it ("fatal
\* error: concurrent map writes", "concurrent map read and map write") and
\* end the process; undetected, the access is the step above
RaceFatal(w) ==
    /\ Racing(w)
    /\ inflight' = [v \in LockWorkers |-> Fatal]
    /\ UNCHANGED <<users, notes, notesCache, cacheRows, now, cacheTable,
                   jwtSecret, jwtSecretKey, sqlite_sequence, cacheMutex>>

NextLock ==
    \E w \in LockWorkers :
        \/ LkList(w) \/ RLock(w) \/ RLockWoken(w) \/ LoadRead(w) \/ RUnlock(w)
        \/ LkFetch(w) \/ LockAnnounce(w) \/ Lock(w) \/ SavePut(w)
        \/ SaveFirst(w) \/ LkMutate(w) \/ LkSave(w) \/ ClearPut(w) \/ Unlock(w)

\* the scheduler runs every goroutine that can run (weak fairness of every
\* step of a request that has started); the mutex of the writers inside
\* sync.RWMutex is a sync.Mutex, which hands itself to a goroutine that has
\* waited for it (starvation mode), so a writer that finds it free again and
\* again gets it (strong fairness of LockAnnounce).  readerSem is released
\* without handoff, so a parked reader gets no more than weak fairness: it
\* runs when a count is there and stays there
LockFairness ==
    \A w \in LockWorkers :
        /\ WF_vars(RLock(w) \/ RLockWoken(w) \/ LoadRead(w) \/ RUnlock(w)
                   \/ LkFetch(w) \/ Lock(w) \/ SavePut(w) \/ SaveFirst(w)
                   \/ LkSave(w) \/ ClearPut(w) \/ Unlock(w))
        /\ SF_vars(LockAnnounce(w))

SpecLock == InitLock /\ [][NextLock]_vars /\ LockFairness

\* -------------------------------------------------------------- properties
\* the statuses of a served create, update and delete
Success == {200, 201, 204}

\* no request is in flight
Quiescent == \A w \in Workers : inflight[w].pc = "idle"

\* C1: isolation.  For a note n and a request authenticated as a user A other
\* than n's owner, PUT and DELETE of n's id leave the row n as it is, whatever
\* the body, and answer 404 when the request passes the body validation that
\* precedes every /notes handler (400 when it does not).
C1_Isolation ==
    \A n \in notes, h \in NoteHeaders, b \in NoteBodies :
        LET A == getUserIDFromToken(State, h)
            u == PUT_notes(State, h, n.id, b)
            d == DELETE_notes(State, h, n.id, b)
        IN  (A # 0 /\ A # n.user_id) =>
                /\ n \in u.st.notes /\ u.st.notes = notes
                /\ n \in d.st.notes /\ d.st.notes = notes
                /\ u.status = (IF ValidateNote(b) THEN 404 ELSE 400)
                /\ d.status = (IF ValidateNote(b) THEN 404 ELSE 400)

\* C1 witness: an active note of one user, and a validated update of its id
\* under the other user's token that is answered 404
C1_Witness ==
    \E n \in notes, h \in NoteHeaders, b \in NoteBodies :
        /\ n.deleted_at = 0
        /\ getUserIDFromToken(State, h) \notin {0, n.user_id}
        /\ ValidateNote(b)
        /\ b.title # n.title
        /\ PUT_notes(State, h, n.id, b).status = 404
        /\ DELETE_notes(State, h, n.id, b).status = 404

\* C2: sequential cache coherence.  After a served create, update or delete
\* of a note whose owner is the caller, the caller's next list returns exactly
\* the caller's active notes as the repository then holds them.
C2_NextListCoherent ==
    \A h \in NoteHeaders, id \in 1..MaxNotes, b \in NoteBodies, g \in ProbeBodies :
        \A m \in {POST_notes(State, h, b), PUT_notes(State, h, id, b),
                  DELETE_notes(State, h, id, b)} :
            LET l == GET_notes(m.st, h, g)
            IN  (/\ m.status \in Success
                 /\ m.note # NoNote => m.note.user_id = getUserIDFromToken(State, h)
                 /\ l.status = 200)
                => l.list = fetchUserNotes(m.st, getUserIDFromToken(State, h))

\* C2 witness: the caller's in-process entry holds notes, the caller's create
\* is answered 201, and the next list answers the created note, which the
\* entry did not hold
C2_Witness ==
    \E h \in NoteHeaders, b \in NoteBodies, g \in ValidProbes :
        LET uid == getUserIDFromToken(State, h)
            m == POST_notes(State, h, b)
            l == GET_notes(m.st, h, g)
        IN  /\ uid \in DOMAIN notesCache
            /\ notesCache[uid] # {}
            /\ m.status = 201
            /\ m.note.user_id = uid
            /\ l.status = 200
            /\ m.note \in l.list
            /\ l.list # notesCache[uid]

\* C3: every note of a list served with no other request in flight is stored
\* with the caller as its owner and with no delete timestamp, whichever tier
\* the list is served from.
C3_ListOwnActive ==
    \A h \in NoteHeaders, g \in ProbeBodies :
        LET l == GET_notes(State, h, g)
        IN  (Quiescent /\ l.status = 200) =>
                \A n \in l.list :
                    \E m \in notes : /\ m.id = n.id
                                     /\ m.user_id = getUserIDFromToken(State, h)
                                     /\ m.deleted_at = 0

\* C4: soft delete.  After a delete answered 204 the note's row is still
\* stored, with a delete timestamp, and the note is not in the owner's next
\* list; and a note stored with a delete timestamp is in no list served with
\* no other request in flight.
C4_DeletedNotListed ==
    \A h \in NoteHeaders, id \in 1..MaxNotes, g \in ProbeBodies :
        LET d == DELETE_notes(State, h, id, g)
            l == GET_notes(d.st, h, g)
            k == GET_notes(State, h, g)
        IN  /\ d.status = 204 =>
                /\ \E m \in d.st.notes : m.id = id /\ m.deleted_at # 0
                /\ \A n \in l.list : n.id # id
            /\ (Quiescent /\ k.status = 200) =>
                \A n \in notes : n.deleted_at # 0 =>
                    \A x \in k.list : x.id # n.id

\* C5: the note a create stores is owned by the user of the caller's token,
\* and an update leaves the owner of the note as it was.
C5_OwnerFromToken ==
    \A h \in NoteHeaders, id \in 1..MaxNotes, b \in NoteBodies :
        LET c == POST_notes(State, h, b)
            u == PUT_notes(State, h, id, b)
        IN  /\ c.status = 201 =>
                /\ c.note \in c.st.notes
                /\ c.note.user_id = getUserIDFromToken(State, h)
            /\ u.status = 200 =>
                \A old \in notes : old.id = id => u.note.user_id = old.user_id

\* a token that verifies under both keys and is of no stored user
OrphanToken(h) ==
    /\ h.present
    /\ h.tok.form = "jwt"
    /\ h.tok.key = jwtSecret /\ h.tok.key = jwtSecretKey
    /\ now < h.tok.exp
    /\ h.tok.uid \notin UserIDs(State)

\* the responses of the five protected routes to a header and a body
Protected(h, id, b) ==
    {GET_me(State, h), GET_notes(State, h, b), POST_notes(State, h, b),
     PUT_notes(State, h, id, b), DELETE_notes(State, h, id, b)}

\* C6: a correctly signed, unexpired token of a user id that no account has
\* is answered 401 by every protected route, and nothing is changed.
C6_OrphanTokenRejected ==
    \A h \in Headers, id \in 1..MaxNotes, b \in ProbeBodies :
        (OrphanToken(h) /\ ValidateNote(b)) =>
            \A o \in Protected(h, id, b) : o.status = 401 /\ o.st = State

\* C7: the token a login issues, sent with the "Bearer " prefix before it
\* expires, is accepted by the authorizer of /me and by that of the notes
\* routes, and both yield the user who logged in.
C7_TokenRoundTrip ==
    \A b \in LoginBodies :
        LET o == POST_login(State, b)
        IN  o.status = 200 =>
                /\ AuthMiddleware(State, Bearer(o.token)) = o.user.id
                /\ getUserIDFromToken(State, Bearer(o.token)) = o.user.id

\* a header with no token, or one that the route's key does not verify
BadToken(h, key) ==
    \/ ~h.present
    \/ h.tok.form # "jwt"
    \/ h.tok.key # key
    \/ h.tok.exp <= now

\* C8: a request without a verifying token is answered 401 on every protected
\* route, for every body, and nothing is changed.
C8_UnauthorizedFirst ==
    \A h \in Headers, id \in 1..MaxNotes, b \in ProbeBodies :
        /\ BadToken(h, jwtSecret) =>
               GET_me(State, h).status = 401 /\ GET_me(State, h).st = State
        /\ BadToken(h, jwtSecretKey) =>
               \A o \in Protected(h, id, b) \ {GET_me(State, h)} :
                   o.status = 401 /\ o.st = State

\* C9: a registration with a stored username or a stored email is answered
\* with Conflict (400 or 409) and stores no user.
C9_DuplicateConflict ==
    \A b \in RegisterBodies :
        LET o == POST_register(State, b)
        IN  (/\ b.json /\ ValidateUser(b)
             /\ \E u \in users : u.username = b.username \/ u.email = b.email)
            => o.status \in {400, 409} /\ o.st = State

\* the user who registered with the body's username and password
Matched(b) ==
    {u \in users : u.username = b.username /\ u.password = hashPassword(b.password)}

\* C10 (as amended): login answers 200, with a token of the matched user's id,
\* exactly when a user registered with the username and the password; it
\* answers 400 when the body does not parse or the username or the password is
\* empty, and 401 in every other case, and then issues no token.
C10_LoginIff ==
    \A b \in LoginBodies :
        LET o == POST_login(State, b)
        IN  /\ o.status = 200 <=> Matched(b) # {}
            /\ o.status = 200 =>
                   /\ o.token.form = "jwt"
                   /\ \E u \in Matched(b) : o.token.uid = u.id
            /\ Matched(b) = {} =>
                   /\ o.token = NoToken
                   /\ o.status = (IF b.json /\ ValidateLogin(b) THEN 401 ELSE 400)

\* C10 witness: a stored user, a login with the registered password that is
\* answered 200 and one with another password that is answered 401
C10_Witness ==
    \E b \in LoginBodies, w \in LoginBodies :
        /\ POST_login(State, b).status = 200
        /\ w.username = b.username /\ w.password # ""
        /\ POST_login(State, w).status = 401

\* C10 as stated: every login that is not a match is answered 401
C10_AlwaysUnauthorized ==
    \A b \in LoginBodies :
        Matched(b) = {} => POST_login(State, b).status = 401

\* C11: a failed login does not tell an unknown username from a wrong
\* password.  Of two runs that differ only in whether the user of the
\* request's username is stored, either both logins fail with the same status
\* and the same message, or the login where the user is stored succeeds.
C11_LoginIndistinguishable ==
    \A b \in LoginBodies, u \in users :
        LET with == POST_login(State, b)
            without == POST_login([State EXCEPT !.users = users \ {u}], b)
        IN  (u.username = b.username /\ with.status # 200) =>
                /\ without.status = with.status
                /\ without.msg = with.msg
                /\ without.token = with.token

\* C11 witness: a stored user and a login with that username and another
\* password, answered 401
C11_Witness ==
    \E b \in LoginBodies, u \in users :
        /\ u.username = b.username
        /\ u.password = hashPassword("password1")
        /\ b.password = "password2"
        /\ POST_login(State, b).status = 401
        /\ POST_login([State EXCEPT !.users = users \ {u}], b).status = 401

\* the clock values a token is presented at
Times == 1..(MaxTime + TokenTTL + 1)

\* the headers that carry a token of the JWT form
JwtHeaders == {h \in Headers : h.present /\ h.tok.form = "jwt"}

\* the responses of the five protected routes in state st, for every note id
\* of the path
RoutesAt(st, h, b) ==
    {GET_me(st, h), GET_notes(st, h, b), POST_notes(st, h, b)}
    \cup {PUT_notes(st, h, id, b) : id \in 1..MaxNotes}
    \cup {DELETE_notes(st, h, id, b) : id \in 1..MaxNotes}

\* C12: token expiry.  The token of a login expires TokenTTL (24 hours) after
\* it is issued.  Presented at a time after its expiry, a token is answered
\* 401 by every protected route and nothing is changed; presented before its
\* expiry, a token that carries the route's key is accepted (by the notes
\* routes with or without the scheme prefix, by /me as the bare token of a
\* stored user) and yields its user id.
C12_TokenExpiry ==
    /\ \A b \in LoginBodies :
           POST_login(State, b).status = 200 =>
               POST_login(State, b).token.exp = now + TokenTTL
    /\ \A h \in JwtHeaders, g \in ValidProbes, t \in Times :
           LET st == [State EXCEPT !.now = t]
           IN      /\ h.tok.exp < t =>
                          \A o \in RoutesAt(st, h, g) :
                              o.status = 401 /\ o.st = st
                   /\ (t < h.tok.exp /\ h.tok.key = jwtSecretKey) =>
                          getUserIDFromToken(st, h) = h.tok.uid
                   /\ (/\ t < h.tok.exp /\ h.tok.key = jwtSecret
                       /\ h.scheme = "" /\ h.tok.uid \in UserIDs(st)) =>
                          AuthMiddleware(st, h) = h.tok.uid

\* C12 witness: a login answered 200 whose token, sent bare, is accepted by
\* /me and by the list route now and answered 401 by both after its expiry
C12_Witness ==
    \E b \in LoginBodies, g \in ProbeBodies :
        LET o == POST_login(State, b)
            h == [Bearer(o.token) EXCEPT !.scheme = ""]
            late == [State EXCEPT !.now = o.token.exp + 1]
        IN  /\ o.status = 200
            /\ GET_me(State, h).status = 200
            /\ GET_notes(State, h, g).status = 200
            /\ GET_me(late, h).status = 401
            /\ GET_notes(late, h, g).status = 401

\* C13: create validation.  An authenticated create whose body parses and has
\* a title and a body text is answered 201, whatever else the body holds; one
\* whose title or body text is empty is answered 400 and changes neither the
\* notes nor the caches.
C13_CreateValidation ==
    \A h \in NoteHeaders, b \in NoteBodies :
        LET o == POST_notes(State, h, b)
        IN  (getUserIDFromToken(State, h) # 0 /\ b.json) =>
                /\ (b.title # "" /\ b.body # "") => o.status = 201
                /\ (b.title = "" \/ b.body = "") => o.status = 400 /\ o.st = State

\* C14: the frame of an update.  An update answered 200 leaves a row with the
\* note's id, owner and delete timestamp as they were and with the title and
\* the body text of the request, and changes no other row.
C14_UpdateFrame ==
    \A h \in NoteHeaders, b \in NoteBodies, old \in notes :
        LET u == PUT_notes(State, h, old.id, b)
        IN  u.status = 200 =>
                /\ u.st.notes \ {u.note} = notes \ {old}
                /\ u.note \in u.st.notes
                /\ u.note.id = old.id
                /\ u.note.title = b.title /\ u.note.body = b.body
                /\ u.note.user_id = old.user_id
                /\ u.note.deleted_at = old.deleted_at

\* C15: update is idempotent on what is stored.  When an update is answered
\* 200, the same request applied again leaves the notes (every row's id,
\* owner, title, body text and delete timestamp) and the users exactly as the
\* first application left them; it is answered 200 again, or 404 when the
\* first application took the note out of the caller's active notes.
C15_UpdateIdempotent ==
    \A h \in NoteHeaders, id \in 1..MaxNotes, b \in NoteBodies :
        LET once == PUT_notes(State, h, id, b)
            twice == PUT_notes(once.st, h, id, b)
        IN  once.status = 200 =>
                /\ twice.st.notes = once.st.notes
                /\ twice.st.users = once.st.users
                /\ twice.status \in {200, 404}
                /\ twice.status = 200 => twice.note = once.note

\* C15 witness: an update that changes the title of the caller's note and is
\* answered 200, and 200 again when it is repeated
C15_Witness ==
    \E h \in NoteHeaders, b \in NoteBodies, old \in notes :
        LET once == PUT_notes(State, h, old.id, b)
            twice == PUT_notes(once.st, h, old.id, b)
        IN  /\ once.status = 200
            /\ once.note.title # old.title
            /\ twice.status = 200

\* C16: a soft-deleted note is not found.  An update or a delete of a note
\* with a delete timestamp, requested by its owner with a body that passes
\* validation, is answered 404, exactly as the same request for an id that no
\* row ever had, and changes no row.
C16_DeletedNotFound ==
    \A n \in notes, h \in NoteHeaders, b \in NoteBodies :
        LET u == PUT_notes(State, h, n.id, b)
            d == DELETE_notes(State, h, n.id, b)
            never == NextID(State, "notes")
        IN  (/\ n.deleted_at # 0
             /\ getUserIDFromToken(State, h) = n.user_id
             /\ ValidateNote(b)) =>
                /\ u.status = 404 /\ u.st = State
                /\ d.status = 404 /\ d.st = State
                /\ u = PUT_notes(State, h, never, b)
                /\ d = DELETE_notes(State, h, never, b)

\* C16 witness: a note the owner deleted (its delete timestamp is the time of
\* the delete), and the owner's update of it with another title, answered 404
C16_Witness ==
    \E n \in notes, h \in NoteHeaders, b \in NoteBodies :
        /\ n.deleted_at = now
        /\ getUserIDFromToken(State, h) = n.user_id
        /\ ValidateNote(b)
        /\ b.title # n.title
        /\ PUT_notes(State, h, n.id, b).status = 404
        /\ DELETE_notes(State, h, n.id, b).status = 404

\* C17: a cache failure never fails a list.  Every list request with a
\* verified token (and a body that passes validation) is answered 200, and
\* when the cache read returns an error or no notes the list is the caller's
\* active notes of the repository, also when the write to table caches fails.
C17_CacheFailureRecovered ==
    \A h \in NoteHeaders, g \in ProbeBodies :
        LET uid == getUserIDFromToken(State, h)
            L == LoadNotes(State, uid)
            o == GET_notes(State, h, g)
        IN  (uid # 0 /\ ValidateNote(g)) =>
                /\ o.status = 200
                /\ (~L.ok \/ L.notes = {}) => o.list = fetchUserNotes(State, uid)
                /\ o.st.notes = notes

\* C17 witness: no table caches, so that the cache read returns an error and
\* the cache write fails, and a list answered 200 with the caller's note
C17_Witness ==
    \E h \in NoteHeaders, g \in ProbeBodies :
        LET uid == getUserIDFromToken(State, h)
            o == GET_notes(State, h, g)
        IN  /\ ~cacheTable
            /\ uid # 0
            /\ ~LoadNotes(State, uid).ok
            /\ o.status = 200
            /\ o.list # {}
            /\ o.st.rows = {}

\* C18: the user object a registration answered 201 returns carries neither
\* the stored hash of the password nor the password itself.
C18_NoPasswordInResponse ==
    \A b \in RegisterBodies :
        LET o == POST_register(State, b)
        IN  o.status = 201 =>
                /\ o.user.password # hashPassword(b.password)
                /\ \A stored \in o.st.users : o.user.password # stored.password
                /\ o.user.password[2] # b.password

\* C19: under an unset signing key no token is issued and none is accepted.
\* With JWT_SECRET empty no login is answered 200 and GET /me serves no
\* header; with JWT_SECRET_KEY empty no /notes route gets past authorization.
C19_NoEmptyKey ==
    /\ jwtSecret = "" =>
          /\ \A b \in LoginBodies : POST_login(State, b).status # 200
          /\ \A h \in MeHeaders : GET_me(State, h).status # 200
    /\ jwtSecretKey = "" =>
          \A h \in AuthHeaders : getUserIDFromToken(State, h) = 0

\* C20: concurrent cache coherence.  Whenever no request is in flight, every
\* entry of the in-process map and every persisted cache row that holds notes
\* holds exactly the active notes the repository now has for its user (an
\* entry that holds none is read as a miss by getNotes and is never served).
C20_ConcurrentCoherence ==
    Quiescent =>
        /\ \A u \in DOMAIN notesCache :
              notesCache[u] # {} => notesCache[u] = fetchUserNotes(State, u)
        /\ \A r \in cacheRows :
              r.notes # {} => Unmarshal(r.notes) = fetchUserNotes(State, r.user_id)

\* the handlers updateNote, deleteNote and Register are their steps taken one
\* after the other: lookup, Save, ClearNotesCache; lookup, Create
StepsAreHandlers ==
    /\ \A h \in NoteHeaders, id \in PathIDs, b \in NoteBodies :
        LET uid == getUserIDFromToken(State, h)
            u == updateNote(State, h, id, b)
            d == deleteNote(State, h, id)
        IN  /\ u.status = 200 =>
                u.st = ClearNotesCache(updateNoteSave(State, uid, id, b))
            /\ d.status = 204 =>
                d.st = ClearNotesCache(deleteNoteSave(State,
                           CHOOSE n \in existingNote(State, id, uid) : TRUE))
    /\ \A b \in RegisterBodies :
        POST_register(State, b).status \in {201, 500} =>
            POST_register(State, b) = registerCreate(State, b)

\* C21: the delete-state is monotonic.  In every step, a note whose
\* delete-timestamp is set keeps a set delete-timestamp, under every
\* interleaving of the owner's concurrent update and delete of the note.
C21_DeleteMonotonic ==
    [][\A n \in notes : n.deleted_at # 0 =>
           \A m \in notes' : m.id = n.id => m.deleted_at # 0]_vars

\* a worker inside a cache function holds cacheMutex in the way the function
\* has acquired it: a reader is counted and is not the writer, a writer has
\* announced itself and no reader holds the mutex or can take it
HoldsAsAcquired ==
    \A w \in LockWorkers :
        /\ HeldAt(inflight[w].pc) = "RLock" =>
               w \in cacheMutex.readers /\ cacheMutex.writer # w
        /\ HeldAt(inflight[w].pc) = "Lock" =>
               /\ cacheMutex.writer = w
               /\ cacheMutex.readers = {}
               /\ cacheMutex.readerSem = 0

\* C22: lock discipline.  Every statement that assigns the map notesCache (in
\* SaveNotes, in LoadNotes after a hit of the persisted tier, in
\* ClearNotesCache) runs under the exclusive acquisition of cacheMutex, and in
\* no state is a worker at an assignment of the map while another worker is
\* at a read or at an assignment of it.
C22_LockDiscipline ==
    /\ \A pc \in MapWrites : HeldAt(pc) = "Lock"
    /\ \A w \in LockWorkers : ~Racing(w)

\* the part of C22 about the states the program reaches: no access of the map
\* races with an assignment of it, and every cache function holds the mutex
\* as it acquired it
C22_NoRaceReached ==
    /\ HoldsAsAcquired
    /\ \A w \in LockWorkers : ~Racing(w)

C27_AdmittedCompletes ==
    \A w \in LockWorkers :
        (inflight[w].pc \notin {"idle", "load", "rlock_wait"})
            ~> (inflight[w].pc = "idle")

\* a reader is parked in RLock() with no count to take, while another reader
\* that arrived behind the writer holds the mutex and the writer waits
C27_Overtaken ==
    \E w \in LockWorkers, r \in LockWorkers, v \in LockWorkers :
        /\ inflight[w].pc \in {"save_wait", "clear_wait"}
        /\ cacheMutex.writer = w
        /\ cacheMutex.readerWait = 1
        /\ cacheMutex.readers = {r}
        /\ inflight[v].pc = "rlock_wait"
        /\ cacheMutex.readerSem = 0

\* C23: global invalidation.  A create, update or delete answered with its
\* success status (served alone) leaves the in-process map empty and table
\* caches without a row, of any user.
C23_GlobalInvalidation ==
    \A h \in NoteHeaders, id \in PathIDs, b \in NoteBodies :
        \A o \in {POST_notes(State, h, b), PUT_notes(State, h, id, b),
                  DELETE_notes(State, h, id, b)} :
            o.status \in Success =>
                /\ o.st.cache = EmptyCache
                /\ o.st.rows = {}

\* C23 witness: with no request in flight the in-process map holds an entry
\* with notes, and a create is answered 201
C23_Witness ==
    \E h \in NoteHeaders, b \in NoteBodies :
        /\ Quiescent
        /\ \E u \in DOMAIN notesCache : notesCache[u] # {}
        /\ POST_notes(State, h, b).status = 201
        /\ POST_notes(State, h, b).st.cache = EmptyCache

\* C24: cache expiry.  The row a list writes carries the expiry now + 24 h;
\* a cache read at a time t returns no notes from a persisted row whose expiry
\* is not after t; and the notes a list that missed has written (at the
\* clock's now) are not returned by a cache read 24 hours later or more.
Served(L) == L.ok /\ L.notes # {}
C24_CacheExpiry ==
    \A h \in NoteHeaders, g \in ProbeBodies, t \in Times :
        LET uid == getUserIDFromToken(State, h)
            o == GET_notes(State, h, g)
            mine == CacheRowsOf(State, uid)
        IN  (uid # 0 /\ ValidateNote(g)) =>
                /\ ~Served(LoadNotes(State, uid)) =>
                      /\ \A r \in CacheRowsOf(o.st, uid) : r.expiry = now + CacheTTL
                      /\ t >= now + CacheTTL =>
                            ~Served(LoadNotes([o.st EXCEPT !.now = t], uid))
                /\ (uid \notin DOMAIN notesCache
                        /\ Served(LoadNotes([State EXCEPT !.now = t], uid))) =>
                      t < FirstRow(mine).expiry

\* C26: atomic mutation.  When database.Save fails in an update or a delete
\* that would otherwise be served, the answer is 500, every note is as it was
\* before the request, and neither tier of the cache is changed.
C26_AtomicMutation ==
    \A h \in NoteHeaders, id \in PathIDs, b \in NoteBodies :
        LET u == PUT_notes(SaveFails(State), h, id, b)
            d == DELETE_notes(SaveFails(State), h, id, b)
        IN  /\ PUT_notes(State, h, id, b).status = 200 =>
                /\ u.status = 500
                /\ u.st.notes = notes
                /\ u.st.cache = notesCache
                /\ u.st.rows = cacheRows
            /\ DELETE_notes(State, h, id, b).status = 204 =>
                /\ d.status = 500
                /\ d.st.notes = notes
                /\ d.st.cache = notesCache
                /\ d.st.rows = cacheRows

\* C26 witness: the owner's update and delete of a note held by the in-process
\* cache, answered 500 when database.Save fails
C26_Witness ==
    \E h \in NoteHeaders, n \in notes, b \in NoteBodies :
        LET uid == getUserIDFromToken(State, h)
        IN  /\ uid \in DOMAIN notesCache
            /\ n \in notesCache[uid]
            /\ PUT_notes(State, h, n.id, b).status = 200
            /\ PUT_notes(SaveFails(State), h, n.id, b).status = 500
            /\ DELETE_notes(SaveFails(State), h, n.id, b).status = 500

\* C28: the list read path.  A list with a verified token answers the
\* in-process entry of the caller when the map has one; otherwise the
\* caller's persisted row, which it copies into the map; otherwise the
\* caller's active notes of the repository, and then both the map and table
\* caches hold an entry of the caller equal to the list answered.
C28_ListReadPath ==
    \A h \in NoteHeaders, g \in ProbeBodies :
        LET uid == getUserIDFromToken(State, h)
            o == GET_notes(State, h, g)
            mine == CacheRowsOf(State, uid)
        IN  (uid # 0 /\ ValidateNote(g)) =>
                IF uid \in DOMAIN notesCache
                THEN o.list = notesCache[uid]
                ELSE IF mine # {}
                THEN /\ o.list = Unmarshal(FirstRow(mine).notes)
                     /\ uid \in DOMAIN o.st.cache
                     /\ o.st.cache[uid] = o.list
                ELSE /\ o.list = fetchUserNotes(State, uid)
                     /\ uid \in DOMAIN o.st.cache
                     /\ o.st.cache[uid] = o.list
                     /\ \E r \in CacheRowsOf(o.st, uid) : Unmarshal(r.notes) = o.list

\* C29: a created note is active.  The note a create answered 201 stores has
\* no delete-timestamp and the id the table assigns, whatever the body
\* supplies.
C29_CreatedActive ==
    \A h \in NoteHeaders, b \in NoteBodies :
        LET o == POST_notes(State, h, b)
        IN  o.status = 201 =>
                /\ o.note \in o.st.notes
                /\ o.note.id = NextID(State, "notes")
                /\ o.note.deleted_at = 0

\* C30: an empty cached list is a miss.  When the cache read of the caller
\* returns an entry with no notes, the list answers the caller's active notes
\* of the repository and writes them to the cache.
C30_EmptyIsMiss ==
    \A h \in NoteHeaders, g \in ProbeBodies :
        LET uid == getUserIDFromToken(State, h)
            L == LoadNotes(State, uid)
            o == GET_notes(State, h, g)
        IN  (uid # 0 /\ ValidateNote(g) /\ L.ok /\ L.notes = {}) =>
                /\ o.status = 200
                /\ o.list = fetchUserNotes(State, uid)
                /\ o.st.cache[uid] = fetchUserNotes(State, uid)
                /\ cacheTable =>
                      \E r \in CacheRowsOf(o.st, uid) :
                          Unmarshal(r.notes) = fetchUserNotes(State, uid)

\* C30 witness: the cache read returns an entry with no notes for a caller
\* who has an active note, and the list answers the note
C30_Witness ==
    \E h \in NoteHeaders, g \in ProbeBodies :
        LET uid == getUserIDFromToken(State, h)
            L == LoadNotes(State, uid)
            o == GET_notes(State, h, g)
        IN  /\ uid # 0
            /\ ValidateNote(g)
            /\ L.ok
            /\ L.notes = {}
            /\ fetchUserNotes(State, uid) # {}
            /\ o.list = fetchUserNotes(State, uid)

====
